---- MODULE Spec2Model ----
(***************************************************************************)
(* A model of argupdate.update_parameter_value (src/argupdate/argupdate.py)*)
(* and of a caller that holds one override mapping object and passes it,   *)
(* with the same callable, args and kwargs, to consecutive calls.          *)
(*                                                                         *)
(* Python values are records [t, v]: t = "int" is a plain integer v,       *)
(* t = "cls" is the updater class number v (a subclass of ValueUpdater),   *)
(* t = "inst" is an instance of the updater class number v.                *)
(* A positional argument object is [kind, items] with kind "None", "tuple" *)
(* or "list"; a keyword argument object is [kind, items] with kind "None"  *)
(* or "dict" and items a function from names to values.  The override      *)
(* mapping is an insertion-ordered dict: a sequence of [k, v] entries with *)
(* distinct keys.                                                          *)
(***************************************************************************)
EXTENDS Integers, Sequences, FiniteSets, TLC

VARIABLES func, updated_values, orig_args, orig_kwargs, pre, ncalls, first, result

vars == <<func, updated_values, orig_args, orig_kwargs, pre, ncalls, first, result>>

\* Bounds of the model.
MaxArgs == 2
MaxOverrides == 2
MaxCalls == 2

----------------------------------------------------------------------------
\* Values

IntV(n) == [t |-> "int", v |-> n]
Cls(u) == [t |-> "cls", v |-> u]
Inst(u) == [t |-> "inst", v |-> u]

Doubler == 1
FirstArgAdder == 2

EmptyMap == [k \in {} |-> IntV(0)]

NoneArgs == [kind |-> "None", items |-> <<>>]
NoneKwargs == [kind |-> "None", items |-> EmptyMap]
TupleOf(s) == [kind |-> "tuple", items |-> s]
ListOf(s) == [kind |-> "list", items |-> s]
DictOf(m) == [kind |-> "dict", items |-> m]

\* The mapping an insertion-ordered dict denotes (dict equality ignores order).
AsMap(d) == [k \in {d[i].k : i \in DOMAIN d} |-> (d[CHOOSE i \in DOMAIN d : d[i].k = k]).v]
Keys(d) == {d[i].k : i \in DOMAIN d}
Get(d, key) == (d[CHOOSE i \in DOMAIN d : d[i].k = key]).v
\* dict.pop(key): the dict without the entry, the other entries in their order.
Pop(d, key) == SelectSeq(d, LAMBDA e : e.k # key)

----------------------------------------------------------------------------
\* Signatures: the parameters in declaration order, each with or without a default.

P(n) == [name |-> n, has_default |-> FALSE]
D(n) == [name |-> n, has_default |-> TRUE]

Signatures ==
    { <<>>,                          \* def f0(): ...
      <<P("a"), P("b"), D("c")>>,    \* def f(a, b, c=3): ...
      <<P("a"), D("b"), D("c")>>,    \* def g(a, b=2, c=3): ...
      <<D("c")>>,                    \* def h(c=3): ...
      <<P("a"), D("c"), P("b")>> }   \* def k(a, c=3, *, b): ...

Names == {"a", "b", "c", "zzz"}
KwNames == {"c", "zzz"}
UpdateValues == {IntV(99), Cls(Doubler), Cls(FirstArgAdder), Inst(Doubler)}

\* The positional arguments 1, 5, 9, ...: the code copies them by index and
\* never inspects them, so one value per position is enough.
ArgPrefix(n) == [i \in 1..n |-> IntV(4 * i - 3)]

ArgObjects ==
    {NoneArgs} \cup {TupleOf(ArgPrefix(n)) : n \in 0..MaxArgs}
               \cup {ListOf(ArgPrefix(n)) : n \in 0..MaxArgs}

KwargObjects ==
    {NoneKwargs} \cup {DictOf(m) : m \in UNION {[S -> {IntV(3)}] : S \in SUBSET KwNames}}

Entries == [k : Names, v : UpdateValues]

OrderedDicts ==
    UNION { {d \in [1..n -> Entries] : \A i, j \in 1..n : i # j => d[i].k # d[j].k}
            : n \in 0..MaxOverrides }

----------------------------------------------------------------------------
\* ValueUpdater

\* issubclass(value, ValueUpdater); a value that is no class raises TypeError
\* inside issubclass, which is caught and answered False.
is_value_updater(value) == value.t = "cls"

\* One call of an updater, as the call log keeps it.
Invocation(u, original_value, signature, args, kwargs) ==
    [updater |-> u, original_value |-> original_value, signature |-> signature,
     orig_args |-> args, orig_kwargs |-> kwargs]

\* __call__ of the two concrete updaters of the model: Doubler returns
\* original_value * 2, FirstArgAdder returns 100 + orig_args[0] (100 without args).
Apply(u, original_value, signature, args, kwargs) ==
    IF u = Doubler
    THEN IntV(original_value.v * 2)
    ELSE IntV(100 + (IF args.kind # "None" /\ Len(args.items) > 0
                     THEN args.items[1].v ELSE 0))

----------------------------------------------------------------------------
\* update_parameter_value

\* bool(orig_args), bool(orig_kwargs): None and the empty container are falsy.
TruthyArgs(args) == args.kind # "None" /\ Len(args.items) > 0
TruthyKwargs(kwargs) == kwargs.kind # "None" /\ DOMAIN kwargs.items # {}

\* A variant that tests for None where the code tests for falsiness.
ShortCircuitNoneOnly(args, kwargs) == args.kind = "None" /\ kwargs.kind = "None"

ShortCircuit(args, kwargs) == ~TruthyArgs(args) /\ ~TruthyKwargs(kwargs)

NoParameters(signature) == Len(signature) = 0

\* The names of the parameters without a default, in declaration order.
RECURSIVE positional_parameters(_)
positional_parameters(signature) ==
    IF signature = <<>> THEN <<>>
    ELSE IF Head(signature).has_default
         THEN positional_parameters(Tail(signature))
         ELSE <<Head(signature).name>> \o positional_parameters(Tail(signature))

\* The names of the parameters with a default (only membership is used).
default_parameters(signature) ==
    {signature[i].name : i \in {j \in DOMAIN signature : signature[j].has_default}}

\* A variant that takes only too few arguments for a mismatch.
ArityMismatchTooFew(args, positional) == Len(args.items) < Len(positional)

ArityMismatch(args, positional) == Len(args.items) # Len(positional)

\* A variant that hands every updater the first positional argument.
PositionalValueFirstArg(update, index, signature, args, kwargs) ==
    IF is_value_updater(update)
    THEN [value |-> Apply(update.v, args.items[1], signature, args, kwargs),
          calls |-> <<Invocation(update.v, args.items[1], signature, args, kwargs)>>]
    ELSE [value |-> update, calls |-> <<>>]

\* Lines 87-93: the new value of the positional parameter at `index`
\* (1-based here, orig_args[index - 1] in Python) and the updater calls made.
PositionalValue(update, index, signature, args, kwargs) ==
    IF is_value_updater(update)
    THEN [value |-> Apply(update.v, args.items[index], signature, args, kwargs),
          calls |-> <<Invocation(update.v, args.items[index], signature, args, kwargs)>>]
    ELSE [value |-> update, calls |-> <<>>]

\* The loop over positional_parameters; st = [uv, updated_args, calls].
RECURSIVE PositionalLoop(_, _, _, _, _, _)
PositionalLoop(index, positional, st, signature, args, kwargs) ==
    IF index > Len(positional) THEN st
    ELSE LET key == positional[index] IN
         IF key \in Keys(st.uv)
         THEN LET update == Get(st.uv, key)
                  r == PositionalValue(update, index, signature, args, kwargs)
              IN PositionalLoop(index + 1, positional,
                     [uv |-> Pop(st.uv, key),
                      updated_args |-> Append(st.updated_args, r.value),
                      calls |-> st.calls \o r.calls],
                     signature, args, kwargs)
         ELSE PositionalLoop(index + 1, positional,
                     [st EXCEPT !.updated_args = Append(@, args.items[index])],
                     signature, args, kwargs)

\* Lines 109-114: the new value of has-default parameter k.  orig_kwargs[k]
\* raises TypeError when orig_kwargs is None and KeyError when k is not a key.
KeywordValue(k, v, signature, args, kwargs) ==
    IF is_value_updater(v)
    THEN IF kwargs.kind = "None"
         THEN [status |-> "TypeError", value |-> v, calls |-> <<>>]
         ELSE IF k \notin DOMAIN kwargs.items
         THEN [status |-> "KeyError", value |-> v, calls |-> <<>>]
         ELSE [status |-> "ok",
               value |-> Apply(v.v, kwargs.items[k], signature, args, kwargs),
               calls |-> <<Invocation(v.v, kwargs.items[k], signature, args, kwargs)>>]
    ELSE [status |-> "ok", value |-> v, calls |-> <<>>]

\* A variant without the test of line 108.
IsKeywordUpdateAlways(k, defaults) == TRUE

\* Line 108: the entries of updated_values the keyword loop acts on.
IsKeywordUpdate(k, defaults) == k \in defaults

\* The loop over updated_values.items(), in the dict's order;
\* st = [status, kwarg_updates, calls].
RECURSIVE KeywordLoop(_, _, _, _, _, _, _)
KeywordLoop(i, uv, defaults, st, signature, args, kwargs) ==
    IF i > Len(uv) \/ st.status # "ok" THEN st
    ELSE IF IsKeywordUpdate(uv[i].k, defaults)
         THEN LET r == KeywordValue(uv[i].k, uv[i].v, signature, args, kwargs)
              IN KeywordLoop(i + 1, uv, defaults,
                     [status |-> r.status,
                      kwarg_updates |-> IF r.status = "ok"
                                        THEN [k \in DOMAIN st.kwarg_updates \cup {uv[i].k} |->
                                                IF k = uv[i].k THEN r.value
                                                ELSE st.kwarg_updates[k]]
                                        ELSE st.kwarg_updates,
                      calls |-> st.calls \o r.calls],
                     signature, args, kwargs)
         ELSE KeywordLoop(i + 1, uv, defaults, st, signature, args, kwargs)

\* {**orig_kwargs, **kwarg_updates}
MergeKwargs(items, kwarg_updates) ==
    [k \in DOMAIN items \cup DOMAIN kwarg_updates |->
        IF k \in DOMAIN kwarg_updates THEN kwarg_updates[k] ELSE items[k]]

\* updated_args or orig_args: updated_args is a fresh list.
ReturnArgs(updated_args, args) ==
    IF Len(updated_args) > 0 THEN ListOf(updated_args) ELSE args

Returned(args, kwargs, uv, calls) ==
    [status |-> "returned", args |-> args, kwargs |-> kwargs,
     updated_values |-> uv, calls |-> calls]

Raised(error, uv, calls) ==
    [status |-> error, args |-> NoneArgs, kwargs |-> NoneKwargs,
     updated_values |-> uv, calls |-> calls]

\* The whole function: what it returns or raises, the override mapping as the
\* call leaves it, and the updater calls it made.
update_parameter_value(signature, uv, args, kwargs) ==
    IF ShortCircuit(args, kwargs) THEN Returned(args, kwargs, uv, <<>>)
    ELSE IF NoParameters(signature) THEN Returned(args, kwargs, uv, <<>>)
    ELSE IF args.kind = "None" THEN Raised("TypeError", uv, <<>>)   \* len(None)
    ELSE IF ArityMismatch(args, positional_parameters(signature))
         THEN Returned(args, kwargs, uv, <<>>)
    ELSE LET start == [uv |-> uv, updated_args |-> <<>>, calls |-> <<>>]
             p == IF TruthyArgs(args)
                  THEN PositionalLoop(1, positional_parameters(signature), start,
                                      signature, args, kwargs)
                  ELSE start
             kw == KeywordLoop(1, p.uv, default_parameters(signature),
                               [status |-> "ok", kwarg_updates |-> EmptyMap, calls |-> <<>>],
                               signature, args, kwargs)
         IN IF kw.status # "ok" THEN Raised(kw.status, p.uv, p.calls \o kw.calls)
            ELSE IF kwargs.kind = "None"                             \* {**None}
                 THEN Raised("TypeError", p.uv, p.calls \o kw.calls)
            ELSE Returned(ReturnArgs(p.updated_args, args),
                          DictOf(MergeKwargs(kwargs.items, kw.kwarg_updates)),
                          p.uv, p.calls \o kw.calls)

----------------------------------------------------------------------------
\* The caller

NoResult ==
    [status |-> "none", args |-> NoneArgs, kwargs |-> NoneKwargs,
     updated_values |-> <<>>, calls |-> <<>>]

\* The caller's copies of the two mappings, taken before a call.
Snapshot(uv, kwargs) == [updated_values |-> uv, orig_kwargs |-> kwargs]

Init ==
    /\ func \in Signatures
    /\ updated_values \in OrderedDicts
    /\ orig_args \in ArgObjects
    /\ orig_kwargs \in KwargObjects
    /\ pre = Snapshot(updated_values, orig_kwargs)
    /\ ncalls = 0
    /\ first = NoResult
    /\ result = NoResult

\* One call update_parameter_value(func, updated_values, orig_args, orig_kwargs)
\* with the caller's mapping object, which keeps what the call did to it.
Call ==
    /\ ncalls < MaxCalls
    /\ LET r == update_parameter_value(func, updated_values, orig_args, orig_kwargs)
       IN /\ result' = r
          /\ first' = IF ncalls = 0 THEN r ELSE first
          /\ updated_values' = r.updated_values
    /\ pre' = Snapshot(updated_values, orig_kwargs)
    /\ ncalls' = ncalls + 1
    /\ UNCHANGED <<func, orig_args, orig_kwargs>>

Next == Call

Spec == Init /\ [][Next]_vars

----------------------------------------------------------------------------
\* What the properties below speak of: the last call made, with the override
\* mapping pre.updated_values, and what it returned.

Called == ncalls > 0
Given == pre.updated_values
Pos == positional_parameters(func)
Defaults == default_parameters(func)
Declared == {func[i].name : i \in DOMAIN func}

EmptyOrAbsentArgs == orig_args.kind = "None" \/ orig_args.items = <<>>
EmptyOrAbsentKwargs == orig_kwargs.kind = "None" \/ DOMAIN orig_kwargs.items = {}

\* The check of line 67 was reached and passed.
ArityCheckPasses ==
    /\ ~(EmptyOrAbsentArgs /\ EmptyOrAbsentKwargs)
    /\ func # <<>>
    /\ orig_args.kind # "None"
    /\ Len(orig_args.items) = Len(Pos)

\* The no-default parameters all precede the has-default parameters.
DefaultsLast ==
    \A i, j \in DOMAIN func : (~func[i].has_default /\ func[j].has_default) => i < j

\* What a call returns or raises, without its effects.
Outcome(r) == [status |-> r.status, args |-> r.args, kwargs |-> r.kwargs]

\* The value an override stands for: an updater class is Computed, any other
\* value is a literal.
Resolved(update, original) ==
    IF update.t = "cls"
    THEN Apply(update.v, original, func, orig_args, orig_kwargs)
    ELSE update

Invoked(update, original) ==
    \E n \in DOMAIN result.calls :
        result.calls[n] = Invocation(update.v, original, func, orig_args, orig_kwargs)

----------------------------------------------------------------------------
\* C1: after a call, the override mapping and the keyword mapping passed in
\* are equal to their pre-call snapshots.
C1_NonMutation ==
    Called => /\ AsMap(updated_values) = AsMap(pre.updated_values)
              /\ orig_kwargs = pre.orig_kwargs

\* C2: with an empty override mapping the call does not raise and returns a
\* pair equal to (orig_args, orig_kwargs), absent args or kwargs included.
C2_Identity ==
    (Called /\ Given = <<>>) =>
        /\ result.status = "returned"
        /\ result.args = orig_args
        /\ result.kwargs = orig_kwargs

\* C3: when the no-default parameters come first and as many positional args
\* (at least one) are supplied, the returned args have the original length and
\* slot i holds the literal override of the i-th no-default parameter, or
\* the updater's result on (orig_args[i], signature, orig_args, orig_kwargs),
\* or orig_args[i] when the parameter has no override.
C3_PositionalResolution ==
    ( /\ Called
      /\ result.status = "returned"
      /\ DefaultsLast
      /\ orig_args.kind # "None"
      /\ Len(orig_args.items) = Len(Pos)
      /\ Len(orig_args.items) >= 1 ) =>
        /\ Len(result.args.items) = Len(orig_args.items)
        /\ \A i \in 1..Len(Pos) :
              IF Pos[i] \in Keys(Given)
              THEN LET update == Get(Given, Pos[i]) IN
                   /\ result.args.items[i] = Resolved(update, orig_args.items[i])
                   /\ update.t = "cls" => Invoked(update, orig_args.items[i])
              ELSE result.args.items[i] = orig_args.items[i]

C3_Witness ==
    /\ Called
    /\ result.status = "returned"
    /\ func = <<P("a"), P("b"), D("c")>>
    /\ orig_args = TupleOf(ArgPrefix(2))
    /\ Keys(Given) = {"a", "b"}
    /\ Get(Given, "a") = IntV(99)
    /\ Get(Given, "b") = Cls(FirstArgAdder)
    /\ result.args.items = <<IntV(99), IntV(101)>>

\* C4: when the arity check passes, the returned kwargs have exactly the
\* original keys and the override names that are has-default parameters; each
\* such name maps to its resolved value, the other original keys keep their
\* values, and an override name that is no declared parameter is not added,
\* and the call returns or raises exactly as it does without that entry.
C4_KeywordMerge ==
    (Called /\ ArityCheckPasses) =>
        /\ Outcome(result) =
               Outcome(update_parameter_value(
                   func, SelectSeq(Given, LAMBDA e : e.k \in Declared),
                   orig_args, orig_kwargs))
        /\ result.status = "returned" =>
              LET new == Keys(Given) \cap Defaults
                  out == result.kwargs.items
              IN /\ result.kwargs.kind = "dict"
                 /\ DOMAIN out = DOMAIN orig_kwargs.items \cup new
                 /\ \A k \in new :
                       out[k] = IF Get(Given, k).t = "cls"
                                THEN Resolved(Get(Given, k), orig_kwargs.items[k])
                                ELSE Get(Given, k)
                 /\ \A k \in DOMAIN orig_kwargs.items \ new : out[k] = orig_kwargs.items[k]
                 /\ \A k \in Keys(Given) \ Declared :
                       k \in DOMAIN out <=> k \in DOMAIN orig_kwargs.items

C4_Witness ==
    /\ Called
    /\ ArityCheckPasses
    /\ result.status = "returned"
    /\ Keys(Given) = {"c", "zzz"}
    /\ Get(Given, "c") = Cls(Doubler)
    /\ "c" \in Defaults
    /\ orig_kwargs = DictOf([k \in {"c"} |-> IntV(3)])
    /\ result.kwargs = DictOf([k \in {"c"} |-> IntV(6)])

C6_AbsentAccepted ==
    ( /\ Called
      /\ \/ orig_args.kind = "None" /\ ~EmptyOrAbsentKwargs
         \/ orig_kwargs.kind = "None" /\ ~EmptyOrAbsentArgs ) =>
        result.status = "returned"

\* C7: an override that is an instance of ValueUpdater is called with
\* (original value, signature, orig_args, orig_kwargs) and its return value,
\* not the instance, is the parameter's new value.
C7_InstanceIsCalled ==
    ( /\ Called
      /\ ArityCheckPasses
      /\ orig_kwargs.kind = "dict"
      /\ result.status = "returned" ) =>
        /\ \A i \in 1..Len(Pos) :
              (Pos[i] \in Keys(Given) /\ Get(Given, Pos[i]).t = "inst") =>
                  result.args.items[i] =
                      Apply(Get(Given, Pos[i]).v, orig_args.items[i],
                            func, orig_args, orig_kwargs)
        /\ \A k \in (Keys(Given) \cap Defaults) \cap DOMAIN orig_kwargs.items :
              Get(Given, k).t = "inst" =>
                  result.kwargs.items[k] =
                      Apply(Get(Given, k).v, orig_kwargs.items[k],
                            func, orig_args, orig_kwargs)

\* C8: when the original args and the original kwargs are both empty or
\* absent, the call returns the two inputs as they are, calls no updater and
\* leaves the override mapping whole; no override shows in the result.
C8_ShortCircuit ==
    (Called /\ EmptyOrAbsentArgs /\ EmptyOrAbsentKwargs) =>
        /\ result.status = "returned"
        /\ result.args = orig_args
        /\ result.kwargs = orig_kwargs
        /\ result.calls = <<>>
        /\ updated_values = Given

C8_Witness ==
    /\ Called
    /\ func = <<D("c")>>
    /\ orig_args = TupleOf(<<>>)
    /\ orig_kwargs = DictOf(EmptyMap)
    /\ Given = <<[k |-> "c", v |-> IntV(99)]>>
    /\ result.status = "returned"
    /\ result.kwargs = DictOf(EmptyMap)
    /\ updated_values = Given

\* C9: when the arity check passes and an updater is given for a has-default
\* parameter whose name is not in the original kwargs, the call does not fail
\* and the updater's result is under that name in the returned kwargs.
C9_ComputedForUnsuppliedDefault ==
    ( /\ Called
      /\ ArityCheckPasses
      /\ orig_kwargs.kind = "dict"
      /\ \E k \in Keys(Given) \cap Defaults :
            Get(Given, k).t = "cls" /\ k \notin DOMAIN orig_kwargs.items ) =>
        /\ result.status = "returned"
        /\ \A k \in Keys(Given) \cap Defaults : k \in DOMAIN result.kwargs.items

\* C10: every call of a sequence that reuses the override mapping object with
\* the same callable, args and kwargs returns what the first call returned.
C10_NoRetainedState ==
    ncalls >= 2 => Outcome(result) = Outcome(first)

====
